---- MODULE Spec2Model ----
(***************************************************************************)
(* A model of the luxfi/fhe TFHE evaluator.                                *)
(*                                                                         *)
(* A ciphertext (a, b) under the secret s is represented by its phase      *)
(* b - <a, s> mod Q.  Every linear operation of the evaluator acts         *)
(* component-wise on (a, b) and therefore linearly on the phase.           *)
(* A bootstrap replaces the phase by the negacyclic look-up of the gate's  *)
(* test polynomial at that phase, plus fresh noise.                        *)
(*                                                                         *)
(* The torus is scaled down: Q = 8 * Delta, and the blind rotation has     *)
(* 2 * NBR = Q positions, so the modulus switch into the rotation index is *)
(* exact.                                                                  *)
(***************************************************************************)
EXTENDS Integers, Sequences, FiniteSets, TLC

\* ------------------------------------------------------------------ bounds

\* The encoding step Delta = Q / 8 of the scaled-down torus.
Delta == 4

\* The widths of the integer layer are 1 .. MaxWidth.
MaxWidth == 2

\* ------------------------------------------------------------- parameters

\* The LWE modulus of the scaled-down torus.
Q == 8 * Delta

\* The ring degree: the blind rotation indexes 2 * NBR = Q positions.
NBR == Q \div 2

\* The noise of a fresh encryption and of a bootstrap output lies in
\* -NoiseB .. NoiseB.  The preset leaves room for the sum of three
\* ciphertexts (3 * NoiseB < Delta) and for the doubled sum of two.
NoiseB == (Delta - 1) \div 3

Noise == (0 - NoiseB) .. NoiseB

\* The presets the repository names; the evaluator is built for the first.
EvalPreset == "PN10QP27"

OtherPreset == "PN11QP54"

Presets == {EvalPreset, OtherPreset}

\* ------------------------------------------------------------ ciphertexts

NoCt == [ph |-> 0 - 1, ps |-> "none"]

Ct(p, s) == [ph |-> p, ps |-> s]

\* The value a boolean is encoded as: +Q/8 for true, -Q/8 for false.
Encode(bit) == IF bit THEN Delta ELSE Q - Delta

\* Encryptor.Encrypt: the encoding plus noise e.
Encrypt(bit, e, s) == Ct((Encode(bit) + e + Q) % Q, s)

\* Decryptor.Decrypt: the sign of the phase; the threshold is at 0.
Decrypt(ct) == ct.ph >= 0 /\ ct.ph < Q \div 2

\* The phase as a signed distance from the encoding of bit.
Centered(x) == IF x >= Q \div 2 THEN x - Q ELSE x

NoiseOf(ct, bit) == Centered((ct.ph + Q - Encode(bit)) % Q)

Abs(x) == IF x < 0 THEN 0 - x ELSE x

\* ------------------------------------------------------- test polynomials

\* A test polynomial gives the output for the rotation indices 0 .. NBR - 1;
\* the indices NBR .. 2 * NBR - 1 follow from X^NBR = -1.
TestPolyAND == [k \in 0 .. NBR - 1 |-> Encode(k >= Delta)]

TestPolyOR == [k \in 0 .. NBR - 1 |-> Encode(k < 3 * Delta)]

TestPolyXOR == [k \in 0 .. NBR - 1 |-> Encode(k < 2 * Delta)]

TestPolyNAND == [k \in 0 .. NBR - 1 |-> Encode(~(k >= Delta))]

TestPolyNOR == [k \in 0 .. NBR - 1 |-> Encode(~(k < 3 * Delta))]

TestPolyXNOR == [k \in 0 .. NBR - 1 |-> Encode(~(k < 2 * Delta))]

TestPolyMAJORITY == [k \in 0 .. NBR - 1 |-> Encode(TRUE)]

TestPolyID == [k \in 0 .. NBR - 1 |-> Encode(TRUE)]

\* The constant coefficient of X^(-k) * testPoly in Z[X] / (X^NBR + 1).
BlindRotate(k, testPoly) ==
    IF k < NBR THEN testPoly[k] ELSE (Q - testPoly[k - NBR]) % Q

\* ------------------------------------------------------------------ state

VARIABLES
    bsk,      \* the bootstrap key the evaluator was built with: [KSK |-> BOOLEAN]
    evalHas,  \* the key material handed to the evaluator's constructor
    regs,     \* the caller's ciphertexts: 1 .. 3 -> [ct, bit, d]
    out,      \* the result of the last gate call, or NoOut
    last,     \* the last gate call: [op, err, boots]
    iop,      \* the integer operation in progress, or Idle
    ring,     \* the polynomials a ring routine is applied to, and its result
    eng,      \* the GPU engine: its session map, sessions and counters
    thr,      \* the callers of the GPU engine: each one's call and position
    ldr       \* the SDK's WASM loader: its module state, attempts and callers

vars == <<bsk, evalHas, regs, out, last, iop, ring, eng, thr, ldr>>

\* The largest circuit depth a register records (deeper ones record the cap).
DepthCap == 2

RegIds == 1 .. 3

NoOut == [ct |-> NoCt, bit |-> FALSE, d |-> 0]

NoLast == [op |-> "none", err |-> "none", boots |-> 0]

Min(x, y) == IF x < y THEN x ELSE y

Max(x, y) == IF x < y THEN y ELSE x

\* ------------------------------------------------------- evaluator: results

\* A gate returns (ciphertext, nil) or (nil, error); boots counts the
\* bootstraps the call ran.
Ok(c, n) == [ct |-> c, err |-> "none", boots |-> n]

Fail(e, n) == [ct |-> NoCt, err |-> e, boots |-> n]

\* NewEvaluator(params, bsk): no secret key among the arguments.
NewEvaluator == {"params", "bsk"}

\* sampleExtractAndKeySwitch without the check of the key-switching key.
sampleExtractAndKeySwitch_NoCheck(v, e) ==
    Ok(Ct((v + e + Q) % Q, EvalPreset), 1)

\* sampleExtractAndKeySwitch: fails without a key-switching key; otherwise
\* the extracted sample rescaled to Q, with the noise e of the key switch.
sampleExtractAndKeySwitch(v, e) ==
    IF ~bsk.KSK
    THEN Fail("BootstrapFailed", 1)
    ELSE Ok(Ct((v + e + Q) % Q, EvalPreset), 1)

\* bootstrap: blind rotation with the test polynomial, then sample
\* extraction and key switch.
bootstrap(ct, testPoly, e) ==
    sampleExtractAndKeySwitch(BlindRotate(ct.ph, testPoly), e)

\* addCiphertexts: element-wise sum; the result is allocated with the
\* evaluator's parameters whatever the operands' are.
addCiphertexts(ct1, ct2) == Ct((ct1.ph + ct2.ph) % Q, EvalPreset)

\* doubleCiphertext: the ciphertext added to itself.
\* Variant: doubleCiphertext returns its operand.
doubleCiphertext_Single(ct) == Ct(ct.ph, EvalPreset)

doubleCiphertext(ct) == Ct((ct.ph + ct.ph) % Q, EvalPreset)

\* Variant: the negation followed by the constant offset Delta.
negateCiphertext_Offset(ct) == Ct((Delta + Q - ct.ph) % Q, EvalPreset)

\* negateCiphertext: both components negated.
negateCiphertext(ct) == Ct((Q - ct.ph) % Q, EvalPreset)

\* ---------------------------------------------------------- boolean gates

\* Variant: NOT returns its operand.
NOT_Identity(ct) == ct

NOT(ct) == negateCiphertext(ct)

\* Variant: AND bootstraps with the test polynomial of OR.
AND_AsOR(ct1, ct2, e) == bootstrap(addCiphertexts(ct1, ct2), TestPolyOR, e)

AND(ct1, ct2, e) == bootstrap(addCiphertexts(ct1, ct2), TestPolyAND, e)

\* Variant: OR returns the sum of its operands without bootstrapping it.
OR_NoBootstrap(ct1, ct2, e) == Ok(addCiphertexts(ct1, ct2), 0)

OR(ct1, ct2, e) == bootstrap(addCiphertexts(ct1, ct2), TestPolyOR, e)

\* Variant: XOR bootstraps the sum without doubling it.
XOR_NoDouble(ct1, ct2, e) ==
    bootstrap(addCiphertexts(ct1, ct2), TestPolyXOR, e)

\* Variant: XOR computes OR.
XOR_AsOR(ct1, ct2, e) == bootstrap(addCiphertexts(ct1, ct2), TestPolyOR, e)

XOR(ct1, ct2, e) ==
    bootstrap(doubleCiphertext(addCiphertexts(ct1, ct2)), TestPolyXOR, e)

NAND(ct1, ct2, e) == bootstrap(addCiphertexts(ct1, ct2), TestPolyNAND, e)

NOR(ct1, ct2, e) == bootstrap(addCiphertexts(ct1, ct2), TestPolyNOR, e)

XNOR(ct1, ct2, e) ==
    bootstrap(doubleCiphertext(addCiphertexts(ct1, ct2)), TestPolyXNOR, e)

\* The gates with one negated input: NOT is applied to the operand and its
\* result goes straight into the gate.
ANDNY(ct1, ct2, e) == AND(NOT(ct1), ct2, e)

ANDYN(ct1, ct2, e) == AND(ct1, NOT(ct2), e)

ORNY(ct1, ct2, e) == OR(NOT(ct1), ct2, e)

ORYN(ct1, ct2, e) == OR(ct1, NOT(ct2), e)

\* Variant: the second call is made whatever the first returned.
Then_KeepGoing(first, second) ==
    [second EXCEPT !.boots = first.boots + second.boots]

\* A second call made with the result of a first: the first error returns.
Then(first, second) ==
    IF first.err # "none"
    THEN first
    ELSE [second EXCEPT !.boots = first.boots + second.boots]

\* Variant: MUX with the two data operands exchanged.
MUX_SwapBranches(sel, ctTrue, ctFalse, e1, e2, e3) ==
    LET selAndTrue == AND(sel, ctFalse, e1)
        notSelAndFalse == Then(selAndTrue, AND(NOT(sel), ctTrue, e2))
    IN  Then(notSelAndFalse, OR(selAndTrue.ct, notSelAndFalse.ct, e3))

\* Variant: MUX without the NOT on the selector of the second AND.
MUX_NoNot(sel, ctTrue, ctFalse, e1, e2, e3) ==
    LET selAndTrue == AND(sel, ctTrue, e1)
        notSelAndFalse == Then(selAndTrue, AND(sel, ctFalse, e2))
    IN  Then(notSelAndFalse, OR(selAndTrue.ct, notSelAndFalse.ct, e3))

MUX(sel, ctTrue, ctFalse, e1, e2, e3) ==
    LET selAndTrue == AND(sel, ctTrue, e1)
        notSelAndFalse == Then(selAndTrue, AND(NOT(sel), ctFalse, e2))
    IN  Then(notSelAndFalse, OR(selAndTrue.ct, notSelAndFalse.ct, e3))

AND3(ct1, ct2, ct3, e1, e2) ==
    LET ab == AND(ct1, ct2, e1)
    IN  Then(ab, AND(ab.ct, ct3, e2))

OR3(ct1, ct2, ct3, e1, e2) ==
    LET ab == OR(ct1, ct2, e1)
    IN  Then(ab, OR(ab.ct, ct3, e2))

\* Variant: MAJORITY bootstraps the sum of its first two operands only.
MAJORITY_DropThird(ct1, ct2, ct3, e) ==
    bootstrap(addCiphertexts(ct1, ct2), TestPolyMAJORITY, e)

\* Variant: MAJORITY bootstraps the negated sum (the minority vote).
MAJORITY_Minority(ct1, ct2, ct3, e) ==
    bootstrap(negateCiphertext(addCiphertexts(addCiphertexts(ct1, ct2), ct3)),
              TestPolyMAJORITY, e)

MAJORITY(ct1, ct2, ct3, e) ==
    bootstrap(addCiphertexts(addCiphertexts(ct1, ct2), ct3), TestPolyMAJORITY, e)

NAND3(ct1, ct2, ct3, e1, e2) ==
    LET result == AND3(ct1, ct2, ct3, e1, e2)
    IN  IF result.err # "none" THEN result
        ELSE [result EXCEPT !.ct = NOT(result.ct)]

NOR3(ct1, ct2, ct3, e1, e2) ==
    LET result == OR3(ct1, ct2, ct3, e1, e2)
    IN  IF result.err # "none" THEN result
        ELSE [result EXCEPT !.ct = NOT(result.ct)]

\* Variant: Refresh bootstraps the negated ciphertext.
Refresh_Negating(ct, e) == bootstrap(negateCiphertext(ct), TestPolyID, e)

Refresh(ct, e) == bootstrap(ct, TestPolyID, e)

\* ------------------------------------------------- the plaintext circuits

Maj(a, b, c) == (a /\ b) \/ (a /\ c) \/ (b /\ c)

Gates2 == {"AND", "OR", "XOR", "NAND", "NOR", "XNOR"}

Plain2(g, a, b) ==
    CASE g = "AND" -> a /\ b
      [] g = "OR" -> a \/ b
      [] g = "XOR" -> a # b
      [] g = "NAND" -> ~(a /\ b)
      [] g = "NOR" -> ~(a \/ b)
      [] g = "XNOR" -> a = b

\* ------------------------------------------------------------ bitwise codec

Widths == 1 .. MaxWidth

RECURSIVE Pow2(_)
Pow2(n) == IF n = 0 THEN 1 ELSE 2 * Pow2(n - 1)

\* Bit i (0 = least significant) of x.
BitOf(x, i) == (x \div Pow2(i)) % 2 = 1

\* BitwiseDecryptor.DecryptUint64: the bits, least significant first.
RECURSIVE DecryptUint(_)
DecryptUint(cts) ==
    IF cts = <<>> THEN 0
    ELSE (IF Decrypt(Head(cts)) THEN 1 ELSE 0) + 2 * DecryptUint(Tail(cts))

\* Variant: the bits most significant first.
EncryptUint_MSBFirst(x, w, es) ==
    [i \in 1 .. w |-> Encrypt(BitOf(x, w - i), es[i], EvalPreset)]

\* BitwiseEncryptor.EncryptUint64: one encrypted bit per position, least
\* significant first; es[i] is the noise of position i.
EncryptUint(x, w, es) ==
    [i \in 1 .. w |-> Encrypt(BitOf(x, i - 1), es[i], EvalPreset)]

\* NewBitwiseEvaluator(params, bsk, sk): the callers hand it the secret key.
NewBitwiseEvaluator == {"params", "bsk", "sk"}

Idle ==
    [op |-> "none", w |-> 0, x |-> 0, y |-> 0, i |-> 0, carry |-> NoCt,
     res |-> <<>>, aux |-> <<>>, boots |-> 0, err |-> "none", done |-> FALSE,
     req |-> 0]

\* No ring routine is under way.
NoRing == [op |-> "none"]

\* No GPU engine has been created, and nothing calls one.
NoEngine == [users |-> {}]

NoCallers == <<>>

\* The WASM loader left alone.
NoLoader == [op |-> "none"]

\* ---------------------------------------------------------------- actions

Init ==
    /\ bsk \in [KSK : BOOLEAN]
    /\ evalHas = NewEvaluator
    /\ regs = [i \in RegIds |-> NoOut]
    /\ out = NoOut
    /\ last = NoLast
    /\ iop = Idle
    /\ ring = NoRing
    /\ eng = NoEngine
    /\ thr = NoCallers
    /\ ldr = NoLoader

Filled(ids) == \A i \in ids : regs[i].ct # NoCt

DepthOf(ids) ==
    Min(DepthCap, 1 + Max(regs[1].d, Max(IF 2 \in ids THEN regs[2].d ELSE 0,
                                         IF 3 \in ids THEN regs[3].d ELSE 0)))

\* The ring operations of a gate run on the coefficients they are given: on
\* operands of another preset they either compute on what they read or panic.
Outcomes(ids) ==
    IF \E i \in ids : regs[i].ct.ps # EvalPreset
    THEN {"computed", "panic"}
    ELSE {"computed"}

\* The call returns: the result becomes out, with the bit the same circuit
\* computes on the plaintexts.
Return(name, ids, r, plain) ==
    /\ last.op = "none"
    /\ Filled(ids)
    /\ \E o \in Outcomes(ids) :
          LET res == IF o = "panic" THEN Fail("panic", 0) ELSE r
          IN  /\ out' = IF res.err = "none"
                        THEN [ct |-> res.ct, bit |-> plain, d |-> DepthOf(ids)]
                        ELSE NoOut
              /\ last' = [op |-> name, err |-> res.err, boots |-> res.boots]
    /\ UNCHANGED <<bsk, evalHas, regs, iop, ring, eng, thr, ldr>>

\* The caller encrypts a bit under the evaluator's preset.
DoEncrypt(i, bit, e) ==
    /\ last.op = "none"
    /\ regs' = [regs EXCEPT ![i] =
                  [ct |-> Encrypt(bit, e, EvalPreset), bit |-> bit, d |-> 0]]
    /\ out' = NoOut
    /\ last' = NoLast
    /\ UNCHANGED <<bsk, evalHas, iop, ring, eng, thr, ldr>>

\* The caller encrypts a bit under the other preset.
DoEncryptOther(i, bit, e) ==
    /\ last.op = "none"
    /\ regs' = [regs EXCEPT ![i] =
                  [ct |-> Encrypt(bit, e, OtherPreset), bit |-> bit, d |-> 0]]
    /\ out' = NoOut
    /\ last' = NoLast
    /\ UNCHANGED <<bsk, evalHas, iop, ring, eng, thr, ldr>>

\* The caller keeps the result as an operand of later gates.
Store(i) ==
    /\ out.ct # NoCt
    /\ regs' = [regs EXCEPT ![i] = out]
    /\ out' = NoOut
    /\ last' = NoLast
    /\ UNCHANGED <<bsk, evalHas, iop, ring, eng, thr, ldr>>

\* The caller drops the result (or the error) of the call.
Discard ==
    /\ last.op # "none"
    /\ out' = NoOut
    /\ last' = NoLast
    /\ UNCHANGED <<bsk, evalHas, regs, iop, ring, eng, thr, ldr>>

A == regs[1].ct

B == regs[2].ct

C == regs[3].ct

a == regs[1].bit

b == regs[2].bit

c == regs[3].bit

DoNOT == Return("NOT", {1}, Ok(NOT(A), 0), ~a)

DoAND == \E e \in Noise : Return("AND", {1, 2}, AND(A, B, e), a /\ b)

DoOR == \E e \in Noise : Return("OR", {1, 2}, OR(A, B, e), a \/ b)

DoXOR == \E e \in Noise : Return("XOR", {1, 2}, XOR(A, B, e), a # b)

DoNAND == \E e \in Noise : Return("NAND", {1, 2}, NAND(A, B, e), ~(a /\ b))

DoNOR == \E e \in Noise : Return("NOR", {1, 2}, NOR(A, B, e), ~(a \/ b))

DoXNOR == \E e \in Noise : Return("XNOR", {1, 2}, XNOR(A, B, e), a = b)

DoMUX ==
    \E e1, e2, e3 \in Noise :
        Return("MUX", {1, 2, 3}, MUX(A, B, C, e1, e2, e3), IF a THEN b ELSE c)

DoAND3 ==
    \E e1, e2 \in Noise :
        Return("AND3", {1, 2, 3}, AND3(A, B, C, e1, e2), a /\ b /\ c)

DoOR3 ==
    \E e1, e2 \in Noise :
        Return("OR3", {1, 2, 3}, OR3(A, B, C, e1, e2), a \/ b \/ c)

DoMAJORITY ==
    \E e \in Noise :
        Return("MAJORITY", {1, 2, 3}, MAJORITY(A, B, C, e), Maj(a, b, c))

DoNAND3 ==
    \E e1, e2 \in Noise :
        Return("NAND3", {1, 2, 3}, NAND3(A, B, C, e1, e2), ~(a /\ b /\ c))

DoNOR3 ==
    \E e1, e2 \in Noise :
        Return("NOR3", {1, 2, 3}, NOR3(A, B, C, e1, e2), ~(a \/ b \/ c))

DoRefresh == \E e \in Noise : Return("Refresh", {1}, Refresh(A, e), a)

GateStep ==
    \/ DoNOT \/ DoAND \/ DoOR \/ DoXOR \/ DoNAND \/ DoNOR \/ DoXNOR
    \/ DoMUX \/ DoAND3 \/ DoOR3 \/ DoMAJORITY \/ DoNAND3 \/ DoNOR3
    \/ DoRefresh

Next ==
    \/ \E i \in RegIds, bit \in BOOLEAN, e \in Noise : DoEncrypt(i, bit, e)
    \/ \E i \in RegIds : Store(i)
    \/ Discard
    \/ GateStep

Spec == Init /\ [][Next]_vars

\* Gates applied to ciphertexts of either preset.
NextMix ==
    \/ \E i \in RegIds, bit \in BOOLEAN, e \in Noise : DoEncrypt(i, bit, e)
    \/ \E i \in RegIds, bit \in BOOLEAN, e \in Noise : DoEncryptOther(i, bit, e)
    \/ Discard
    \/ GateStep

SpecMix == Init /\ [][NextMix]_vars

\* Refresh alone: a bit is encrypted and Refresh is applied to it, and to the
\* result, again and again; the depth of a result counts the applications.
NextRefresh ==
    \/ \E i \in RegIds, bit \in BOOLEAN, e \in Noise : DoEncrypt(i, bit, e)
    \/ \E i \in RegIds : Store(i)
    \/ Discard
    \/ DoRefresh

SpecRefresh == Init /\ [][NextRefresh]_vars

\* Gates fed by NOT.
DoANDNY == \E e \in Noise : Return("ANDNY", {1, 2}, ANDNY(A, B, e), ~a /\ b)

DoANDYN == \E e \in Noise : Return("ANDYN", {1, 2}, ANDYN(A, B, e), a /\ ~b)

DoORNY == \E e \in Noise : Return("ORNY", {1, 2}, ORNY(A, B, e), ~a \/ b)

DoORYN == \E e \in Noise : Return("ORYN", {1, 2}, ORYN(A, B, e), a \/ ~b)

\* Both sides of De Morgan's law on the same two operands: NOT(AND(a, b))
\* becomes out, OR(NOT(a), NOT(b)) goes to register 3.
DoDeMorgan ==
    /\ last.op = "none"
    /\ Filled({1, 2})
    /\ \E e1, e2 \in Noise :
          LET t == AND(A, B, e1)
              left == IF t.err # "none" THEN t
                      ELSE [t EXCEPT !.ct = NOT(t.ct)]
              right == Then(left, OR(NOT(A), NOT(B), e2))
          IN  /\ last' = [op |-> "DeMorgan", err |-> right.err,
                          boots |-> right.boots]
              /\ IF right.err # "none"
                 THEN out' = NoOut /\ regs' = regs
                 ELSE /\ out' = [ct |-> left.ct, bit |-> ~(a /\ b),
                                 d |-> DepthOf({1, 2})]
                      /\ regs' = [regs EXCEPT ![3] =
                                    [ct |-> right.ct, bit |-> ~a \/ ~b,
                                     d |-> DepthOf({1, 2})]]
    /\ UNCHANGED <<bsk, evalHas, iop, ring, eng, thr, ldr>>

NextDeMorgan ==
    \/ \E i \in RegIds, bit \in BOOLEAN, e \in Noise : DoEncrypt(i, bit, e)
    \/ \E i \in RegIds : Store(i)
    \/ Discard
    \/ DoANDNY \/ DoANDYN \/ DoORNY \/ DoORYN
    \/ DoDeMorgan

SpecDeMorgan == Init /\ [][NextDeMorgan]_vars

\* ---------------------------------------------------------- integer layer

\* The operand bits of an integer operation are ciphertexts whose noise is
\* independent of everything else; each is read once, in the step of its
\* position, and is drawn when that step reads it.

\* Add / Sub begin: the carry (borrow) starts as an encrypted zero.
Start(name, w, x, y, e) ==
    /\ iop.op = "none"
    /\ evalHas' = NewBitwiseEvaluator
    /\ iop' = [Idle EXCEPT !.op = name, !.w = w, !.x = x, !.y = y,
                           !.carry = Encrypt(FALSE, e, EvalPreset)]
    /\ UNCHANGED <<bsk, regs, out, last, ring, eng, thr, ldr>>

\* Variant: the carry is computed after the last position too.
RippleGates_CarryAfterLast(neg, ai, bi, e1, e2, e3) ==
    LET t == XOR(ai, bi, e1)
        s == Then(t, XOR(t.ct, iop.carry, e2))
    IN  [sum |-> s,
         all |-> Then(s, MAJORITY(IF neg THEN NOT(ai) ELSE ai, bi,
                                  iop.carry, e3))]

\* One position of the ripple on the operand bits ai, bi: the sum bit from
\* two XOR, the next carry from one MAJORITY (none after the last position).
\* neg is TRUE for Sub, whose borrow is the majority of NOT a_i, b_i and the
\* borrow.  sum is the call that made the sum bit, all the three calls in turn.
RippleGates(neg, ai, bi, e1, e2, e3) ==
    LET t == XOR(ai, bi, e1)
        s == Then(t, XOR(t.ct, iop.carry, e2))
    IN  [sum |-> s,
         all |-> IF iop.i = iop.w - 1 THEN s
                 ELSE Then(s, MAJORITY(IF neg THEN NOT(ai) ELSE ai, bi,
                                       iop.carry, e3))]

\* The operand bits of the position, each a ciphertext of its own.
FreshPairs ==
    {<<Encrypt(BitOf(iop.x, iop.i), ea, EvalPreset),
       Encrypt(BitOf(iop.y, iop.i), eb, EvalPreset)>> : ea \in Noise, eb \in Noise}

\* What the gates of one position can return, over the operand bits in pairs
\* and the noise of the bootstraps.
RippleOutcomes(neg, pairs) ==
    {RippleGates(neg, p[1], p[2], e1, e2, e3) :
        p \in pairs, e1 \in Noise, e2 \in Noise, e3 \in Noise}

RippleBit(name, r) ==
    /\ iop.op = name
    /\ ~iop.done
    /\ LET isLast == iop.i = iop.w - 1
       IN  iop' = IF r.all.err # "none"
                  THEN [iop EXCEPT !.err = r.all.err, !.done = TRUE,
                                   !.res = <<>>,
                                   !.boots = iop.boots + r.all.boots]
                  ELSE [iop EXCEPT !.res = Append(iop.res, r.sum.ct),
                                   !.carry = IF isLast THEN iop.carry
                                             ELSE r.all.ct,
                                   !.i = iop.i + 1,
                                   !.boots = iop.boots + r.all.boots,
                                   !.done = isLast]
    /\ UNCHANGED <<bsk, evalHas, regs, out, last, ring, eng, thr, ldr>>

StartAdd ==
    \E w \in Widths, e \in Noise :
        \E x, y \in 0 .. Pow2(w) - 1 : Start("Add", w, x, y, e)

AddBit ==
    /\ iop.op = "Add"
    /\ ~iop.done
    /\ \E r \in RippleOutcomes(FALSE, FreshPairs) : RippleBit("Add", r)

StartSub ==
    \E w \in Widths, e \in Noise :
        \E x, y \in 0 .. Pow2(w) - 1 : Start("Sub", w, x, y, e)

SubBit ==
    /\ iop.op = "Sub"
    /\ ~iop.done
    /\ \E r \in RippleOutcomes(TRUE, FreshPairs) : RippleBit("Sub", r)

\* Mul as the repository's test fixes it: no error, and a ciphertext of the
\* product mod 2^w.
Mul(w, x, y, es) == Ok(EncryptUint((x * y) % Pow2(w), w, es), 0)

DoMul ==
    /\ iop.op = "none"
    /\ \E w \in Widths, x, y \in 0 .. Pow2(MaxWidth) - 1, es \in [1 .. MaxWidth -> Noise] :
          /\ x < Pow2(w)
          /\ y < Pow2(w)
          /\ LET r == Mul(w, x, y, es)
             IN  iop' = [Idle EXCEPT !.op = "Mul", !.w = w, !.x = x, !.y = y,
                                     !.res = r.ct, !.err = r.err, !.done = TRUE]
    /\ evalHas' = NewBitwiseEvaluator
    /\ UNCHANGED <<bsk, regs, out, last, ring, eng, thr, ldr>>

\* The codec alone: encrypt x at width w.
DoEncryptUint ==
    /\ iop.op = "none"
    /\ \E w \in Widths, x \in 0 .. Pow2(MaxWidth) - 1, es \in [1 .. MaxWidth -> Noise] :
          /\ x < Pow2(w)
          /\ iop' = [Idle EXCEPT !.op = "Encrypt", !.w = w, !.x = x,
                                 !.res = EncryptUint(x, w, es), !.done = TRUE]
    /\ UNCHANGED <<bsk, evalHas, regs, out, last, ring, eng, thr, ldr>>

\* The caller takes the result.
ReturnInt ==
    /\ iop.done
    /\ iop' = Idle
    /\ UNCHANGED <<bsk, evalHas, regs, out, last, ring, eng, thr, ldr>>

NextInt ==
    \/ StartAdd \/ AddBit \/ StartSub \/ SubBit
    \/ DoMul \/ DoEncryptUint \/ ReturnInt

SpecInt == Init /\ [][NextInt]_vars

\* ------------------------------------------------------ the WASM bindings

\* The integer types, each named by its number of bits.
FheUint4 == 4

FheUint8 == 8

FheUint16 == 16

FheUint32 == 32

FheUint64 == 64

FheUint128 == 128

FheUint160 == 160

FheUint256 == 256

\* bitWidthToType: the type of a requested width; every width that has no
\* case of its own takes the default.
bitWidthToType(bits) ==
    CASE bits = 4 -> FheUint4
      [] bits = 8 -> FheUint8
      [] bits = 16 -> FheUint16
      [] bits = 32 -> FheUint32
      [] bits = 64 -> FheUint64
      [] bits = 128 -> FheUint128
      [] bits = 160 -> FheUint160
      [] bits = 256 -> FheUint256
      [] OTHER -> FheUint32

\* The widths the specification lists as supported.
SupportedWidths == {1, 4, 8, 16, 32, 64, 128, 160, 256}

\* The widths a caller of the binding asks for: the supported ones and some
\* others, below, between and above them.
RequestedWidths == SupportedWidths \cup {0, 2, 7, 33, 257}

\* encrypt(value, bitWidth, publicKey) with a well-formed public key: the
\* value is encrypted at the type of the requested width.  iop.w is the width
\* of the ciphertext returned, iop.res its MaxWidth lowest positions.
encrypt ==
    /\ iop.op = "none"
    /\ \E value \in 0 .. Pow2(MaxWidth) - 1, bitWidth \in RequestedWidths,
          es \in [1 .. MaxWidth -> Noise] :
          LET fheType == bitWidthToType(bitWidth)
          IN  iop' = [Idle EXCEPT !.op = "encrypt", !.req = bitWidth,
                                  !.w = fheType, !.x = value,
                                  !.res = EncryptUint(value,
                                                      Min(fheType, MaxWidth), es),
                                  !.done = TRUE]
    /\ UNCHANGED <<bsk, evalHas, regs, out, last, ring, eng, thr, ldr>>

NextWasm == encrypt \/ ReturnInt

SpecWasm == Init /\ [][NextWasm]_vars

\* ------------------------------------------------------------ comparisons

\* The plaintext predicates.
PlainCmp(name, x, y) ==
    CASE name = "Lt" -> x < y
      [] name = "Le" -> x <= y
      [] name = "Gt" -> x > y
      [] name = "Ge" -> x >= y
      [] name = "Eq" -> x = y

CmpNames == {"Lt", "Le", "Gt", "Ge"}

\* Lt / Le / Gt / Ge begin like Sub: the borrow starts as an encrypted zero.
StartCmp ==
    \E name \in CmpNames, w \in Widths, e \in Noise :
        \E x, y \in 0 .. Pow2(w) - 1 : Start(name, w, x, y, e)

\* One position of the subtractor pattern: the next borrow of u - v is the
\* majority of NOT u_i, v_i and the borrow; the borrow out of the last
\* position is u < v.  Lt(a, b) reads it for (a, b), Gt(a, b) for (b, a),
\* Ge(a, b) is the complement of Lt(a, b) and Le(a, b) of Gt(a, b).
CmpBit(eu, ev, e) ==
    /\ iop.op \in CmpNames
    /\ ~iop.done
    /\ LET swap == iop.op \in {"Gt", "Le"}
           neg == iop.op \in {"Ge", "Le"}
           u == IF swap THEN iop.y ELSE iop.x
           v == IF swap THEN iop.x ELSE iop.y
           ui == Encrypt(BitOf(u, iop.i), eu, EvalPreset)
           vi == Encrypt(BitOf(v, iop.i), ev, EvalPreset)
           m == MAJORITY(NOT(ui), vi, iop.carry, e)
           isLast == iop.i = iop.w - 1
       IN  iop' = IF m.err # "none"
                  THEN [iop EXCEPT !.err = m.err, !.done = TRUE,
                                   !.boots = iop.boots + m.boots]
                  ELSE [iop EXCEPT !.carry = m.ct,
                                   !.i = iop.i + 1,
                                   !.boots = iop.boots + m.boots,
                                   !.res = IF ~isLast THEN <<>>
                                           ELSE IF neg THEN <<NOT(m.ct)>>
                                           ELSE <<m.ct>>,
                                   !.done = isLast]
    /\ UNCHANGED <<bsk, evalHas, regs, out, last, ring, eng, thr, ldr>>

CmpStep == \E eu, ev, e \in Noise : CmpBit(eu, ev, e)

StartEq ==
    /\ iop.op = "none"
    /\ \E w \in Widths :
          \E x, y \in 0 .. Pow2(w) - 1 :
              iop' = [Idle EXCEPT !.op = "Eq", !.w = w, !.x = x, !.y = y]
    /\ evalHas' = NewBitwiseEvaluator
    /\ UNCHANGED <<bsk, regs, out, last, ring, eng, thr, ldr>>

\* Eq, first pass: XNOR of the two bits of each position.
EqBit(ea, eb, e) ==
    /\ iop.op = "Eq"
    /\ ~iop.done
    /\ iop.i < iop.w
    /\ LET ai == Encrypt(BitOf(iop.x, iop.i), ea, EvalPreset)
           bi == Encrypt(BitOf(iop.y, iop.i), eb, EvalPreset)
           r == XNOR(ai, bi, e)
       IN  iop' = IF r.err # "none"
                  THEN [iop EXCEPT !.err = r.err, !.done = TRUE, !.res = <<>>,
                                   !.boots = iop.boots + r.boots]
                  ELSE [iop EXCEPT !.res = Append(iop.res, r.ct),
                                   !.i = iop.i + 1,
                                   !.boots = iop.boots + r.boots,
                                   !.done = iop.w = 1]
    /\ UNCHANGED <<bsk, evalHas, regs, out, last, ring, eng, thr, ldr>>

\* Eq, second pass: the XNOR bits are folded with AND two by two, each
\* result joining the end of the row, until one bit is left.
EqFold(e) ==
    /\ iop.op = "Eq"
    /\ ~iop.done
    /\ iop.i = iop.w
    /\ Len(iop.res) >= 2
    /\ LET r == AND(iop.res[1], iop.res[2], e)
       IN  iop' = IF r.err # "none"
                  THEN [iop EXCEPT !.err = r.err, !.done = TRUE, !.res = <<>>,
                                   !.boots = iop.boots + r.boots]
                  ELSE [iop EXCEPT !.res = Append(Tail(Tail(iop.res)), r.ct),
                                   !.boots = iop.boots + r.boots,
                                   !.done = Len(iop.res) = 2]
    /\ UNCHANGED <<bsk, evalHas, regs, out, last, ring, eng, thr, ldr>>

EqStep == \E ea, eb, e \in Noise : EqBit(ea, eb, e)

EqFoldStep == \E e \in Noise : EqFold(e)

NextCmp ==
    \/ StartCmp \/ CmpStep
    \/ StartEq \/ EqStep \/ EqFoldStep
    \/ ReturnInt

SpecCmp == Init /\ [][NextCmp]_vars

\* ------------------------------------------------- Select, Min and Max

\* Select(sel, x, y): the selector is one encrypted bit, kept in iop.carry.
StartSelect ==
    /\ iop.op = "none"
    /\ \E w \in Widths, s \in BOOLEAN, e \in Noise :
          \E x, y \in 0 .. Pow2(w) - 1 :
              iop' = [Idle EXCEPT !.op = "Select", !.w = w, !.x = x, !.y = y,
                                  !.carry = Encrypt(s, e, EvalPreset)]
    /\ evalHas' = NewBitwiseEvaluator
    /\ UNCHANGED <<bsk, regs, out, last, ring, eng, thr, ldr>>

\* Min / Max begin with Lt(a, b).
StartMinMax ==
    \E name \in {"Min", "Max"}, w \in Widths, e \in Noise :
        \E x, y \in 0 .. Pow2(w) - 1 : Start(name, w, x, y, e)

\* One position of Lt(a, b) inside Min / Max; after the last position the
\* final borrow becomes the selector of the Select that follows.
MinMaxLtBit(ea, eb, e) ==
    /\ iop.op \in {"Min", "Max"}
    /\ ~iop.done
    /\ LET ai == Encrypt(BitOf(iop.x, iop.i), ea, EvalPreset)
           bi == Encrypt(BitOf(iop.y, iop.i), eb, EvalPreset)
           m == MAJORITY(NOT(ai), bi, iop.carry, e)
           isLast == iop.i = iop.w - 1
       IN  iop' = IF m.err # "none"
                  THEN [iop EXCEPT !.err = m.err, !.done = TRUE,
                                   !.boots = iop.boots + m.boots]
                  ELSE [iop EXCEPT !.carry = m.ct,
                                   !.i = IF isLast THEN 0 ELSE iop.i + 1,
                                   !.boots = iop.boots + m.boots,
                                   !.op = IF ~isLast THEN iop.op
                                          ELSE IF iop.op = "Min" THEN "MinSelect"
                                          ELSE "MaxSelect"]
    /\ UNCHANGED <<bsk, evalHas, regs, out, last, ring, eng, thr, ldr>>

\* One position of Select: MUX of the selector and the two bits of the
\* position.  Min selects (a, b), Max selects (b, a).  The results the MUX
\* can return, over the noise of the two operand bits and of its three
\* bootstraps:
SelectOutcomes ==
    LET t == IF iop.op = "MaxSelect" THEN iop.y ELSE iop.x
        f == IF iop.op = "MaxSelect" THEN iop.x ELSE iop.y
    IN  {MUX(iop.carry, Encrypt(BitOf(t, iop.i), et, EvalPreset),
             Encrypt(BitOf(f, iop.i), ef, EvalPreset), e1, e2, e3) :
            et \in Noise, ef \in Noise, e1 \in Noise, e2 \in Noise, e3 \in Noise}

SelectBit(r) ==
    /\ iop.op \in {"Select", "MinSelect", "MaxSelect"}
    /\ ~iop.done
    /\ iop' = IF r.err # "none"
              THEN [iop EXCEPT !.err = r.err, !.done = TRUE, !.res = <<>>,
                               !.boots = iop.boots + r.boots]
              ELSE [iop EXCEPT !.res = Append(iop.res, r.ct),
                               !.i = iop.i + 1,
                               !.boots = iop.boots + r.boots,
                               !.done = iop.i = iop.w - 1]
    /\ UNCHANGED <<bsk, evalHas, regs, out, last, ring, eng, thr, ldr>>

MinMaxLtStep == \E ea, eb, e \in Noise : MinMaxLtBit(ea, eb, e)

SelectStep ==
    /\ iop.op \in {"Select", "MinSelect", "MaxSelect"}
    /\ ~iop.done
    /\ \E r \in SelectOutcomes : SelectBit(r)

NextSelect ==
    \/ StartSelect \/ StartMinMax
    \/ MinMaxLtStep \/ SelectStep
    \/ ReturnInt

SpecSelect == Init /\ [][NextSelect]_vars

\* ------------------------------- one ciphertext as both operands, and Neg

SelfNames == {"XorSelf", "OrSelf", "AndSelf", "NotNot"}

\* The bitwise operations work position by position, with no carry.
StartSelf ==
    /\ iop.op = "none"
    /\ \E name \in SelfNames, w \in Widths :
          \E x \in 0 .. Pow2(w) - 1 :
              iop' = [Idle EXCEPT !.op = name, !.w = w, !.x = x, !.y = x]
    /\ evalHas' = NewBitwiseEvaluator
    /\ UNCHANGED <<bsk, regs, out, last, ring, eng, thr, ldr>>

\* Xor(a, a), Or(a, a), And(a, a) and Not(Not(a)) at one position: the gate
\* is given the same ciphertext ct twice.
SelfGate(name, ct, e) ==
    CASE name = "XorSelf" -> XOR(ct, ct, e)
      [] name = "OrSelf" -> OR(ct, ct, e)
      [] name = "AndSelf" -> AND(ct, ct, e)
      [] OTHER -> Ok(NOT(NOT(ct)), 0)

SelfOutcomes ==
    {SelfGate(iop.op, Encrypt(BitOf(iop.x, iop.i), ea, EvalPreset), e) :
        ea \in Noise, e \in Noise}

SelfBit(r) ==
    /\ iop.op \in SelfNames
    /\ ~iop.done
    /\ iop' = IF r.err # "none"
              THEN [iop EXCEPT !.err = r.err, !.done = TRUE, !.res = <<>>,
                               !.boots = iop.boots + r.boots]
              ELSE [iop EXCEPT !.res = Append(iop.res, r.ct),
                               !.i = iop.i + 1,
                               !.boots = iop.boots + r.boots,
                               !.done = iop.i = iop.w - 1]
    /\ UNCHANGED <<bsk, evalHas, regs, out, last, ring, eng, thr, ldr>>

SelfStep ==
    /\ iop.op \in SelfNames
    /\ ~iop.done
    /\ \E r \in SelfOutcomes : SelfBit(r)

\* Sub(a, a): both operand bits of a position are the same ciphertext.
SamePairs ==
    {<<Encrypt(BitOf(iop.x, iop.i), ea, EvalPreset),
       Encrypt(BitOf(iop.x, iop.i), ea, EvalPreset)>> : ea \in Noise}

StartSubSelf ==
    \E w \in Widths, e \in Noise :
        \E x \in 0 .. Pow2(w) - 1 : Start("SubSelf", w, x, x, e)

SubSelfBit ==
    /\ iop.op = "SubSelf"
    /\ ~iop.done
    /\ \E r \in RippleOutcomes(TRUE, SamePairs) : RippleBit("SubSelf", r)

\* Neg(a) is Sub(0, a).
StartNeg ==
    \E w \in Widths, e \in Noise :
        \E x \in 0 .. Pow2(w) - 1 : Start("Neg", w, 0, x, e)

NegBit ==
    /\ iop.op = "Neg"
    /\ ~iop.done
    /\ \E r \in RippleOutcomes(TRUE, FreshPairs) : RippleBit("Neg", r)

\* Add(a, Neg(a)): the second operand is the array Neg returned, kept in
\* iop.aux; iop.y is what it decrypts to.
StartAddNeg ==
    /\ iop.op = "Neg"
    /\ iop.done
    /\ iop.err = "none"
    /\ \E e \in Noise :
          iop' = [Idle EXCEPT !.op = "AddNeg", !.w = iop.w, !.x = iop.y,
                              !.y = DecryptUint(iop.res), !.aux = iop.res,
                              !.carry = Encrypt(FALSE, e, EvalPreset)]
    /\ UNCHANGED <<bsk, evalHas, regs, out, last, ring, eng, thr, ldr>>

AuxPairs ==
    {<<Encrypt(BitOf(iop.x, iop.i), ea, EvalPreset), iop.aux[iop.i + 1]>> :
        ea \in Noise}

AddNegBit ==
    /\ iop.op = "AddNeg"
    /\ ~iop.done
    /\ \E r \in RippleOutcomes(FALSE, AuxPairs) : RippleBit("AddNeg", r)

NextLaws ==
    \/ StartSelf \/ SelfStep
    \/ StartSubSelf \/ SubSelfBit
    \/ StartNeg \/ NegBit \/ StartAddNeg \/ AddNegBit
    \/ ReturnInt

SpecLaws == Init /\ [][NextLaws]_vars

\* -------------------------------------------------------- ring routines

\* The ring degree and the modulus of the polynomials the ring routines are
\* applied to.
RingN == 2

RingQ == 4

\* Polynomials with coefficients in 0 .. RingQ - 1, coefficient i at index i.
Poly == [0 .. RingN - 1 -> 0 .. RingQ - 1]

CoreVars == <<bsk, evalHas, regs, out, last, iop>>

\* sampleExtractAndKeySwitch, step 1: the LWE sample of the constant
\* coefficient of the RLWE ciphertext (Value[0], Value[1]) = (c0, c1).
Evaluator_sampleExtract(c0, c1) ==
    [b |-> c0[0],
     a |-> [i \in 0 .. RingN - 1 |->
               IF i = 0 THEN c1[0] ELSE RingQ - c1[RingN - i]]]

\* Engine.SampleExtract(rlwe): a from rlwe.C0, b from rlwe.C1.
Engine_SampleExtract(C0, C1) ==
    [b |-> C1[0],
     a |-> [i \in 0 .. RingN - 1 |->
               IF i = 0 THEN C0[0]
               ELSE LET val == C0[RingN - i]
                    IN  IF val < 0 THEN RingQ + val ELSE RingQ - val]]

\* ExternalProductContext.SampleExtract(rlweA, rlweB): the permuted and
\* signed coefficients of rlweA, the negative ones lifted by Q.
ExternalProductContext_SampleExtract(rlweA, rlweB) ==
    LET indices == [i \in 0 .. RingN - 1 |-> IF i = 0 THEN 0 ELSE RingN - i]
        signs == [i \in 0 .. RingN - 1 |-> IF i = 0 THEN 1 ELSE -1]
        lweA == [i \in 0 .. RingN - 1 |-> rlweA[indices[i]] * signs[i]]
    IN  [b |-> rlweB[0],
         a |-> [i \in 0 .. RingN - 1 |->
                   IF lweA[i] < 0 THEN lweA[i] + RingQ ELSE lweA[i]]]

\* A pair of polynomials (C0, C1) is handed to the ring routines.
InitRing ==
    /\ bsk = [KSK |-> TRUE]
    /\ evalHas = NewEvaluator
    /\ regs = [i \in RegIds |-> NoOut]
    /\ out = NoOut
    /\ last = NoLast
    /\ iop = Idle
    /\ eng = NoEngine
    /\ thr = NoCallers
    /\ ldr = NoLoader
    /\ ring \in [op : {"none"}, C0 : Poly, C1 : Poly]

Extracted(name, lwe) ==
    /\ ring.op = "none"
    /\ "C0" \in DOMAIN ring
    /\ ring' = [op |-> name, C0 |-> ring.C0, C1 |-> ring.C1,
                a |-> lwe.a, b |-> lwe.b]
    /\ UNCHANGED <<CoreVars, eng, thr, ldr>>

\* The CPU evaluator extracts from (Value[0], Value[1]) = (C0, C1).
DoEvaluatorExtract ==
    Extracted("Evaluator", Evaluator_sampleExtract(ring.C0, ring.C1))

\* The engine extracts from the RLWE struct {C0, C1}.
DoEngineExtract ==
    Extracted("Engine", Engine_SampleExtract(ring.C0, ring.C1))

\* The batch bootstrap extracts from the accumulator (accA, accB), accB
\* holding the rotated test polynomial: the mask is C1 and the body C0.
DoContextExtract ==
    Extracted("ExternalProductContext",
              ExternalProductContext_SampleExtract(ring.C1, ring.C0))

\* The modulus the bootstrap's result is rescaled to, below RingQ.
qLWE == RingQ \div 2 + 1

\* sampleExtractAndKeySwitch, step 3, on one coefficient: the product with
\* qLWE / qBR converted to an unsigned integer, which drops the fraction.
ModSwitch(x) == ((x * qLWE) \div RingQ) % qLWE

\* The integer nearest to num / den, the even one of two equally near.
RoundHalfEven(num, den) ==
    LET fl == num \div den
        r == num % den
    IN  IF 2 * r < den THEN fl
        ELSE IF 2 * r > den THEN fl + 1
        ELSE IF fl % 2 = 0 THEN fl ELSE fl + 1

\* The rescale of every coefficient of the key-switched ciphertext
\* (Value[0], Value[1]) = (C0, C1) from RingQ down to qLWE.
DoModSwitch ==
    /\ ring.op = "none"
    /\ "C0" \in DOMAIN ring
    /\ ring' = [op |-> "ModSwitch", C0 |-> ring.C0, C1 |-> ring.C1,
                V0 |-> [i \in 0 .. RingN - 1 |-> ModSwitch(ring.C0[i])],
                V1 |-> [i \in 0 .. RingN - 1 |-> ModSwitch(ring.C1[i])]]
    /\ UNCHANGED <<CoreVars, eng, thr, ldr>>

\* ExternalProductContext.polyRotate on one batch element: the index is
\* reduced modulo N, the coefficients that wrapped are negated and lifted by Q.
polyRotate(poly, k) ==
    LET kVal == k % RingN
        indices == [i \in 0 .. RingN - 1 |-> (i - kVal + RingN) % RingN]
        signs == [i \in 0 .. RingN - 1 |-> IF i < kVal THEN -1 ELSE 1]
        rotated == [i \in 0 .. RingN - 1 |-> poly[indices[i]] * signs[i]]
    IN  [i \in 0 .. RingN - 1 |->
            IF signs[i] < 0 THEN rotated[i] + RingQ ELSE rotated[i]]

\* Engine.batchPolyRotate on one batch element: as polyRotate, but the lift
\* by Q is applied to the coefficients that came out negative.
batchPolyRotate(poly, k) ==
    LET kk == k % RingN
        indices == [i \in 0 .. RingN - 1 |-> (i - kk + RingN) % RingN]
        signs == [i \in 0 .. RingN - 1 |-> IF i < kk THEN -1 ELSE 1]
        rotated == [i \in 0 .. RingN - 1 |-> poly[indices[i]] * signs[i]]
    IN  [i \in 0 .. RingN - 1 |->
            IF rotated[i] < 0 THEN rotated[i] + RingQ ELSE rotated[i]]

\* Engine.RLWEMulByMonomial on one component: the index is normalised to
\* 0 .. 2N - 1, and a source index of N or more means a negated coefficient.
RLWEMulByMonomial(poly, k) ==
    LET kn == ((k % (2 * RingN)) + 2 * RingN) % (2 * RingN)
        newIndices == [i \in 0 .. RingN - 1 |-> (i - kn + 2 * RingN) % (2 * RingN)]
        needsNegate == [i \in 0 .. RingN - 1 |-> IF newIndices[i] >= RingN THEN 1 ELSE 0]
        rot == [i \in 0 .. RingN - 1 |-> poly[newIndices[i] % RingN]]
    IN  [i \in 0 .. RingN - 1 |->
            (1 - needsNegate[i]) * rot[i] + needsNegate[i] * (RingQ - rot[i])]

\* A rotation routine is called with the index k and, on the same
\* polynomials, with k + N.
Rotated(name, k, R, RN) ==
    /\ ring.op = "none"
    /\ "C0" \in DOMAIN ring
    /\ ring' = [op |-> name, C0 |-> ring.C0, C1 |-> ring.C1, k |-> k,
                R |-> R, RN |-> RN]
    /\ UNCHANGED <<CoreVars, eng, thr, ldr>>

DoPolyRotate ==
    \E k \in 0 .. 2 * RingN - 1 :
        Rotated("polyRotate", k,
                <<polyRotate(ring.C0, k), polyRotate(ring.C1, k)>>,
                <<polyRotate(ring.C0, k + RingN),
                  polyRotate(ring.C1, k + RingN)>>)

DoBatchPolyRotate ==
    \E k \in 0 .. 2 * RingN - 1 :
        Rotated("batchPolyRotate", k,
                <<batchPolyRotate(ring.C0, k), batchPolyRotate(ring.C1, k)>>,
                <<batchPolyRotate(ring.C0, k + RingN),
                  batchPolyRotate(ring.C1, k + RingN)>>)

DoRLWEMulByMonomial ==
    \E k \in 0 .. 2 * RingN - 1 :
        Rotated("RLWEMulByMonomial", k,
                <<RLWEMulByMonomial(ring.C0, k), RLWEMulByMonomial(ring.C1, k)>>,
                <<RLWEMulByMonomial(ring.C0, k + RingN),
                  RLWEMulByMonomial(ring.C1, k + RingN)>>)

NextRing ==
    \/ DoEvaluatorExtract \/ DoEngineExtract \/ DoContextExtract
    \/ DoModSwitch
    \/ DoPolyRotate \/ DoBatchPolyRotate \/ DoRLWEMulByMonomial

SpecRing == InitRing /\ [][NextRing]_vars

\* ------------------------------------------------------------- GPU engine

\* The most sessions the engine holds (cfg.MaxUsers), scaled.
MaxUsers == 1

\* The user IDs the model lets the engine hand out before it stops creating.
MaxUserID == 2

\* The longest UserIDs list of a batch, and the largest pool.
MaxBatch == 1

\* The most pools a session is given.
MaxPools == 1

\* The goroutines that call the engine.
Threads == {1, 2}

GateAND == 0

GateOR == 1

GateXOR == 2

GateNAND == 3

GateNOR == 4

GateXNOR == 5

GateNOT == 6

GateMUX == 7

GateAND3 == 8

GateOR3 == 9

GateMAJORITY == 10

GateTypes ==
    {GateAND, GateOR, GateXOR, GateNAND, GateNOR, GateXNOR,
     GateNOT, GateMUX, GateAND3, GateOR3, GateMAJORITY}

\* initTestPolynomials: the rows of the table of test polynomials.
numGates == 6

\* The engine's configuration, scaled.
cfg == [n |-> 1, L |-> 1, N |-> RingN, Q |-> RingQ, MaxUsers |-> MaxUsers]

\* The bytes UploadBootstrapKey and AllocateCiphertexts add to MemoryUsed.
BskBytes == cfg.n * 2 * cfg.L * 2 * cfg.N * 8

PoolBytes(count) == count * (cfg.n + 1) * 8

NoStats ==
    [TotalBootstraps |-> 0, TotalGates |-> 0, ActiveUsers |-> 0,
     TotalMemoryUsed |-> 0]

\* What a call returned: its error, its value, for GetStats the statistics,
\* and for a batch its users and those of them that were ready at the call.
NoReturn ==
    [op |-> "none", err |-> "none", val |-> 0, batch |-> {}, ready |-> {},
     obs |-> NoStats]

Returned(name, err, val) ==
    [NoReturn EXCEPT !.op = name, !.err = err, !.val = val]

\* New(cfg): no sessions, the counters at zero.  sess holds every session
\* ever created (a caller may hold one that left the map), users the keys of
\* the map, readers the read locks held on usersMu, issued the IDs CreateUser
\* returned, ret what the call that returned last returned.
NewEngine ==
    [users |-> {}, sess |-> <<>>, nextUserID |-> 0,
     totalBootstraps |-> 0, totalGates |-> 0, readers |-> 0, issued |-> <<>>,
     ret |-> NoReturn]

\* &UserSession{UserID: userID, LWEPools: make([]*LWEPool, 0)}; mu is the
\* goroutine holding the session's mutex, 0 for none.
UserSession(userID) ==
    [UserID |-> userID, BSK |-> FALSE, KSK |-> FALSE, LWEPools |-> <<>>,
     MemoryUsed |-> 0, OpsCompleted |-> 0, mu |-> 0]

\* Variant: the pool is created full.
LWEPool_Filled(count) == [Count |-> count, Cap |-> count]

\* &LWEPool{A: zeros, B: zeros, Count: 0, Cap: count}
LWEPool(count) == [Count |-> 0, Cap |-> count]

\* A goroutine between calls.
IdleCaller ==
    [pc |-> "idle", op |-> "none", uid |-> 0, n |-> 0, gate |-> GateAND,
     batch |-> {}, ready |-> {}, todo |-> {}, err |-> "none", ret |-> 0,
     obs |-> NoStats]

InitEngine ==
    /\ bsk = [KSK |-> TRUE]
    /\ evalHas = NewEvaluator
    /\ regs = [i \in RegIds |-> NoOut]
    /\ out = NoOut
    /\ last = NoLast
    /\ iop = Idle
    /\ ring = NoRing
    /\ eng = NewEngine
    /\ thr = [t \in Threads |-> IdleCaller]
    /\ ldr = NoLoader

\* Variant: the ID is one more than the number of sessions in the map.
nextUserID_Add_Reuse(e) == Cardinality(e.users) + 1

\* e.nextUserID.Add(1): the value after the increment.
nextUserID_Add(e) == e.nextUserID + 1

\* CreateUser, the whole of it under the write lock of usersMu.
CreateUser(t) ==
    /\ thr[t].pc = "idle"
    /\ eng.readers = 0
    /\ IF Cardinality(eng.users) >= cfg.MaxUsers
       THEN eng' = [eng EXCEPT !.ret = Returned("CreateUser",
                                                "max users reached", 0)]
       ELSE /\ eng.nextUserID < MaxUserID
            /\ LET userID == nextUserID_Add(eng)
               IN  eng' = [eng EXCEPT
                             !.nextUserID = @ + 1,
                             !.sess = [i \in 1 .. Max(Len(@), userID) |->
                                          IF i = userID THEN UserSession(userID)
                                          ELSE @[i]],
                             !.users = @ \cup {userID},
                             !.issued = Append(@, userID),
                             !.ret = Returned("CreateUser", "none", userID)]
    /\ UNCHANGED <<CoreVars, ring, thr, ldr>>

\* DeleteUser, the whole of it under the write lock of usersMu.
DeleteUser(t, userID) ==
    /\ thr[t].pc = "idle"
    /\ eng.readers = 0
    /\ eng' = [eng EXCEPT !.users = @ \ {userID},
                          !.ret = Returned("DeleteUser", "none", 0)]
    /\ UNCHANGED <<CoreVars, ring, thr, ldr>>

\* The first lines of UploadBootstrapKey and AllocateCiphertexts: the lookup
\* of the session under the read lock.
Lookup(t, name, userID, count) ==
    /\ thr[t].pc = "idle"
    /\ IF userID \notin eng.users
       THEN /\ eng' = [eng EXCEPT
                         !.ret = Returned(name, "user not found", 0)]
            /\ thr' = thr
       ELSE /\ eng' = eng
            /\ thr' = [thr EXCEPT ![t] =
                          [IdleCaller EXCEPT !.op = name, !.uid = userID,
                                             !.n = count, !.pc = "lock"]]
    /\ UNCHANGED <<CoreVars, ring, ldr>>

\* The callers upload a key to a session that has none.
UploadBootstrapKey(t, userID) ==
    /\ userID \in eng.users => ~eng.sess[userID].BSK
    /\ Lookup(t, "UploadBootstrapKey", userID, 0)

AllocateCiphertexts(t, userID, count) ==
    /\ userID \in eng.users => Len(eng.sess[userID].LWEPools) < MaxPools
    /\ Lookup(t, "AllocateCiphertexts", userID, count)

\* The caller after a step: between calls again once the call has returned.
AfterStep(me) == IF me.pc = "return" THEN IdleCaller ELSE me

\* The engine after a step that left the caller as me: with what the call
\* returned, if it has.
WithReturn(e, me) ==
    IF me.pc # "return" THEN e
    ELSE [e EXCEPT !.ret = [op |-> me.op, err |-> me.err, val |-> me.ret,
                            batch |-> me.batch, ready |-> me.ready,
                            obs |-> me.obs]]

\* A step of a call: the caller becomes me, the engine e.
Stepped(t, me, e) ==
    /\ thr' = [thr EXCEPT ![t] = AfterStep(me)]
    /\ eng' = WithReturn(e, me)
    /\ UNCHANGED <<CoreVars, ring, ldr>>

\* The rest of UploadBootstrapKey, one access of the session at a time:
\* user.mu.Lock(); user.BSK = ...; user.MemoryUsed += ...; the deferred Unlock.
UploadStep(t) ==
    LET me == thr[t]
        u == me.uid
    IN  /\ me.op = "UploadBootstrapKey"
        /\ me.pc = "lock" => eng.sess[u].mu = 0
        /\ Stepped(t,
              CASE me.pc = "lock" -> [me EXCEPT !.pc = "setBSK"]
                [] me.pc = "setBSK" -> [me EXCEPT !.pc = "addMem"]
                [] me.pc = "addMem" -> [me EXCEPT !.pc = "return"],
              [eng EXCEPT !.sess[u] =
                  CASE me.pc = "lock" -> [@ EXCEPT !.mu = t]
                    [] me.pc = "setBSK" -> [@ EXCEPT !.BSK = TRUE]
                    [] me.pc = "addMem" ->
                          [@ EXCEPT !.MemoryUsed = @ + BskBytes, !.mu = 0]])

\* The rest of AllocateCiphertexts: user.mu.Lock(); the append to LWEPools;
\* user.MemoryUsed += ...; the deferred Unlock.  ret is the pool's index.
AllocateStep(t) ==
    LET me == thr[t]
        u == me.uid
    IN  /\ me.op = "AllocateCiphertexts"
        /\ me.pc = "lock" => eng.sess[u].mu = 0
        /\ Stepped(t,
              CASE me.pc = "lock" -> [me EXCEPT !.pc = "append"]
                [] me.pc = "append" ->
                      [me EXCEPT !.pc = "addMem",
                                 !.ret = Len(eng.sess[u].LWEPools)]
                [] me.pc = "addMem" -> [me EXCEPT !.pc = "return"],
              [eng EXCEPT !.sess[u] =
                  CASE me.pc = "lock" -> [@ EXCEPT !.mu = t]
                    [] me.pc = "append" ->
                          [@ EXCEPT !.LWEPools = Append(@, LWEPool(me.n))]
                    [] me.pc = "addMem" ->
                          [@ EXCEPT !.MemoryUsed = @ + PoolBytes(me.n),
                                    !.mu = 0]])

\* batchBootstrap up to the choice of the test polynomial: the error it
\* returns, the number of ciphertexts it bootstraps and the row of the table
\* of test polynomials it reads (-1: it does not get that far).
batchBootstrap(user, gate, count) ==
    LET stop(err) == [err |-> err, count |-> 0, testPolyIdx |-> -1]
    IN  IF count = 0 THEN stop("none")
        ELSE IF ~user.BSK THEN stop("bootstrap key not initialized")
        ELSE IF Len(user.LWEPools) = 0 THEN stop("no LWE pools allocated")
        ELSE IF user.LWEPools[1].Count = 0 THEN stop("LWE pool is empty")
        ELSE [err |-> "none",
              count |-> Min(count, user.LWEPools[1].Count),
              testPolyIdx |-> IF gate >= numGates THEN 0 ELSE gate]

\* userOps: the users of the batch, each with the number of its operations.
GroupByUser(uids) ==
    {<<u, Cardinality({i \in DOMAIN uids : uids[i] = u})>> :
        u \in {uids[i] : i \in DOMAIN uids}}

\* A session in the map for which UploadBootstrapKey and AllocateCiphertexts
\* with a positive count have returned.
Ready(u) ==
    /\ u \in eng.users
    /\ eng.sess[u].BSK
    /\ eng.sess[u].mu = 0
    /\ Len(eng.sess[u].LWEPools) > 0
    /\ eng.sess[u].LWEPools[1].Cap > 0

\* ExecuteBatchGates(ops) with one BatchGateOp: an empty UserIDs is skipped.
\* ready keeps the ready users of the batch, each with its OpsCompleted.
ExecuteBatchGates(t, gate, uids) ==
    /\ thr[t].pc = "idle"
    /\ Stepped(t,
          [IdleCaller EXCEPT !.op = "ExecuteBatchGates", !.gate = gate,
                             !.batch = GroupByUser(uids),
                             !.todo = GroupByUser(uids),
                             !.ready = {<<g[1], eng.sess[g[1]].OpsCompleted>> :
                                          g \in {h \in GroupByUser(uids) :
                                                    Ready(h[1])}},
                             !.pc = IF Len(uids) = 0 THEN "return"
                                    ELSE "range"],
          eng)

\* Where the loop over userOps goes after a user: the next user, or return nil.
Continue(me) == [me EXCEPT !.pc = IF me.todo = {} THEN "return" ELSE "range"]

\* The loop over userOps, one access at a time: the next user of the map
\* (in any order) and its lookup under the read lock; the read of user.BSK;
\* batchBootstrap; the three atomic additions.
ExecuteStep(t) ==
    LET me == thr[t]
        u == me.uid
    IN  /\ me.op = "ExecuteBatchGates"
        /\ \E g \in IF me.pc = "range" THEN me.todo ELSE {<<u, me.n>>} :
              Stepped(t,
                 CASE me.pc = "range" ->
                         IF g[1] \notin eng.users
                         THEN Continue([me EXCEPT !.todo = @ \ {g}])
                         ELSE [me EXCEPT !.todo = @ \ {g}, !.uid = g[1],
                                         !.n = g[2], !.pc = "checkBSK"]
                   [] me.pc = "checkBSK" ->
                         IF ~eng.sess[u].BSK THEN Continue(me)
                         ELSE [me EXCEPT !.pc = "batchBootstrap"]
                   [] me.pc = "batchBootstrap" ->
                         LET r == batchBootstrap(eng.sess[u], me.gate, me.n)
                         IN  IF r.err # "none"
                             THEN [me EXCEPT !.pc = "return", !.err = r.err]
                             ELSE [me EXCEPT !.pc = "addOps"]
                   [] me.pc = "addOps" -> [me EXCEPT !.pc = "addGates"]
                   [] me.pc = "addGates" -> [me EXCEPT !.pc = "addBoots"]
                   [] me.pc = "addBoots" -> Continue(me),
                 CASE me.pc = "addOps" ->
                         [eng EXCEPT !.sess[u].OpsCompleted = @ + me.n]
                   [] me.pc = "addGates" ->
                         [eng EXCEPT !.totalGates = @ + me.n]
                   [] me.pc = "addBoots" ->
                         [eng EXCEPT !.totalBootstraps = @ + me.n]
                   [] OTHER -> eng)

\* GetStats takes the read lock of usersMu and counts the sessions.
GetStats(t) ==
    /\ thr[t].pc = "idle"
    /\ Stepped(t,
          [IdleCaller EXCEPT !.op = "GetStats", !.pc = "sumMem",
                             !.todo = eng.users,
                             !.obs.ActiveUsers = Cardinality(eng.users)],
          [eng EXCEPT !.readers = @ + 1])

\* The rest of GetStats: the MemoryUsed of each session of the map (in any
\* order), the release of the read lock, then the two counters, one load each.
GetStatsStep(t) ==
    LET me == thr[t]
    IN  /\ me.op = "GetStats"
        /\ \E u \in IF me.pc = "sumMem" /\ me.todo # {} THEN me.todo ELSE {0} :
              Stepped(t,
                 CASE me.pc = "sumMem" /\ u # 0 ->
                         [me EXCEPT !.todo = @ \ {u},
                                    !.obs.TotalMemoryUsed =
                                        @ + eng.sess[u].MemoryUsed]
                   [] me.pc = "sumMem" /\ u = 0 ->
                         [me EXCEPT !.pc = "loadBoots"]
                   [] me.pc = "loadBoots" ->
                         [me EXCEPT !.pc = "loadGates",
                                    !.obs.TotalBootstraps = eng.totalBootstraps]
                   [] me.pc = "loadGates" ->
                         [me EXCEPT !.pc = "return",
                                    !.obs.TotalGates = eng.totalGates],
                 IF me.pc = "sumMem" /\ u = 0
                 THEN [eng EXCEPT !.readers = @ - 1]
                 ELSE eng)

\* The UserIDs lists of the batches: up to MaxBatch IDs.
UserIDLists ==
    UNION {[1 .. k -> 1 .. MaxUserID] : k \in 0 .. MaxBatch}

\* The gates of the batches.
BatchGates == {GateAND, GateMUX}

NextEngine ==
    \E t \in Threads :
        \/ CreateUser(t)
        \/ \E userID \in 1 .. MaxUserID : DeleteUser(t, userID)
        \/ \E userID \in 1 .. MaxUserID : UploadBootstrapKey(t, userID)
        \/ \E userID \in 1 .. MaxUserID, count \in 1 .. MaxBatch :
              AllocateCiphertexts(t, userID, count)
        \/ \E gate \in BatchGates, uids \in UserIDLists :
              ExecuteBatchGates(t, gate, uids)
        \/ GetStats(t)
        \/ UploadStep(t)
        \/ AllocateStep(t)
        \/ ExecuteStep(t)
        \/ GetStatsStep(t)

SpecEngine == InitEngine /\ [][NextEngine]_vars

\* batchBootstrap called on a session built inside the package: with or
\* without a key, without a pool or with a pool that holds 0 .. MaxBatch + 1
\* ciphertexts, for every gate type and every count.
InitBootstrap ==
    /\ bsk = [KSK |-> TRUE]
    /\ evalHas = NewEvaluator
    /\ regs = [i \in RegIds |-> NoOut]
    /\ out = NoOut
    /\ last = NoLast
    /\ iop = Idle
    /\ ring = NoRing
    /\ thr = NoCallers
    /\ ldr = NoLoader
    /\ \E hasBSK \in BOOLEAN, pools \in 0 .. 1, held \in 0 .. MaxBatch + 1,
          gate \in GateTypes, count \in 0 .. MaxBatch + 1 :
          eng = [op |-> "none",
                 user |-> [UserSession(1) EXCEPT
                             !.BSK = hasBSK,
                             !.LWEPools =
                                 IF pools = 0 THEN <<>>
                                 ELSE <<[Count |-> held,
                                         Cap |-> MaxBatch + 1]>>],
                 gate |-> gate, count |-> count]

\* e.batchBootstrap(user, gate, count)
DoBatchBootstrap ==
    /\ eng.op = "none"
    /\ LET r == batchBootstrap(eng.user, eng.gate, eng.count)
       IN  eng' = [op |-> "batchBootstrap", user |-> eng.user,
                   gate |-> eng.gate, count |-> r.count, err |-> r.err,
                   testPolyIdx |-> r.testPolyIdx]
    /\ UNCHANGED <<CoreVars, ring, thr, ldr>>

NextBootstrap == DoBatchBootstrap

SpecBootstrap == InitBootstrap /\ [][NextBootstrap]_vars

\* ------------------------------------------------------------- WASM loader
\* src/sdk/typescript/src/wasm-loader.ts.  JavaScript runs one task at a time:
\* every action below is the code between two awaits.

\* The most initialization attempts, and the polls of an attempt for
\* globalThis.luxfhe (100 in the source).
MaxAttempts == 2

MaxPolls == 1

\* The callers of loadLuxFHE.
Callers == {1, 2}

\* A caller that has not called loadLuxFHE.  p is the promise it awaits, val
\* the object it received, arrived when it called: "first" starts the
\* attempt, "during" finds it pending, "after" finds it settled.
IdleCall == [pc |-> "idle", p |-> 0, val |-> 0, arrived |-> "none"]

\* The module when it is imported: wasmInitialized = false, initPromise =
\* null (0), no globalThis.luxfhe (0), no Go class.  promises are the promises
\* of the attempts, instances counts the WASM instances run, late is the
\* instance whose main has not yet exported luxfhe, given the objects handed
\* to callers.
NewLoader ==
    [op |-> "loader", wasmInitialized |-> FALSE, initPromise |-> 0,
     luxfhe |-> 0, Go |-> FALSE, promises |-> <<>>,
     callers |-> [cl \in Callers |-> IdleCall],
     runtimeLoads |-> 0, instances |-> 0, late |-> 0, given |-> {}]

InitLoader ==
    /\ bsk = [KSK |-> TRUE]
    /\ evalHas = NewEvaluator
    /\ regs = [i \in RegIds |-> NoOut]
    /\ out = NoOut
    /\ last = NoLast
    /\ iop = Idle
    /\ ring = NoRing
    /\ eng = NoEngine
    /\ thr = NoCallers
    /\ ldr = NewLoader

\* isInitialized()
isInitialized(l) == l.wasmInitialized /\ l.luxfhe # 0

\* getWasm(): it throws, or returns the object.
getWasm(l) ==
    IF ~l.wasmInitialized \/ l.luxfhe = 0 THEN [throws |-> TRUE, val |-> 0]
    ELSE [throws |-> FALSE, val |-> l.luxfhe]

\* Variant: the promise of an attempt in progress is not looked at.
InitInProgress_Never(l) == FALSE

\* if (initPromise)
InitInProgress(l) == l.initPromise # 0

\* The promise of a new attempt: the async function has run up to the await
\* in loadGoRuntime, which returns at once if the Go class is defined.
NewAttempt(l) ==
    [state |-> "pending",
     pc |-> IF l.Go THEN "loadWasm" ELSE "loadGoRuntime",
     attempts |-> 0, value |-> 0, runtime |-> 0, wasm |-> 0]

\* loadLuxFHE(options), up to the promise it returns.
loadLuxFHE(cl) ==
    LET me == ldr.callers[cl]
        n == Len(ldr.promises) + 1
    IN  /\ me.pc # "await"
        /\ IF InitInProgress(ldr)
           THEN ldr' = [ldr EXCEPT !.callers[cl] =
                          [pc |-> "await", p |-> ldr.initPromise, val |-> 0,
                           arrived |->
                               IF ldr.promises[ldr.initPromise].state
                                      = "pending"
                               THEN "during" ELSE "after"]]
           ELSE IF ldr.wasmInitialized /\ ldr.luxfhe # 0
           THEN ldr' = [ldr EXCEPT
                          !.callers[cl] = [pc |-> "resolved", p |-> 0,
                                          val |-> ldr.luxfhe,
                                          arrived |-> "after"],
                          !.given = @ \cup {ldr.luxfhe}]
           ELSE /\ n <= MaxAttempts
                /\ ldr' = [ldr EXCEPT
                             !.promises = Append(@, NewAttempt(ldr)),
                             !.initPromise = n,
                             !.callers[cl] = [pc |-> "await", p |-> n,
                                             val |-> 0, arrived |-> "first"]]
    /\ UNCHANGED <<CoreVars, ring, eng, thr>>

\* Variant: the catch block leaves initPromise as it is.
Catch_KeepPromise(l, p) == [l EXCEPT !.promises[p].state = "rejected"]

\* catch (error) { initPromise = null; throw error; }
Catch(l, p) ==
    [l EXCEPT !.initPromise = 0, !.promises[p].state = "rejected"]

\* What the awaited operation of an attempt can do: the import of
\* wasm_exec.js and the read and instantiation of the module succeed or
\* throw; the module's main exports luxfhe while go.run starts it ("ok") or
\* has not done so when go.run returns ("late").
Outcomes_Loader(pc) ==
    CASE pc = "loadGoRuntime" -> {"ok", "error"}
      [] pc = "loadWasm" -> {"ok", "late", "error"}
      [] OTHER -> {"ok"}

\* The body of the attempt after loadLuxFHE returned its promise:
\* loadGoRuntime, loadWasm, the loop waiting for globalThis.luxfhe, and
\* wasmInitialized = true; return globalThis.luxfhe.
AttemptStep(p) ==
    LET att == ldr.promises[p]
        inst == ldr.instances + 1
    IN  /\ att.state = "pending"
        /\ \E o \in Outcomes_Loader(att.pc) :
              ldr' =
                CASE o = "error" -> Catch(ldr, p)
                  [] att.pc = "loadGoRuntime" /\ o = "ok" ->
                        [ldr EXCEPT !.Go = TRUE, !.runtimeLoads = @ + 1,
                                    !.promises[p].runtime = @ + 1,
                                    !.promises[p].pc = "loadWasm"]
                  [] att.pc = "loadWasm" /\ o # "error" ->
                        [ldr EXCEPT !.instances = inst,
                                    !.luxfhe = IF o = "ok" THEN inst ELSE @,
                                    !.late = IF o = "late" THEN inst ELSE @,
                                    !.promises[p].wasm = @ + 1,
                                    !.promises[p].pc = "poll"]
                  [] att.pc = "poll" /\ ldr.luxfhe # 0 ->
                        [ldr EXCEPT !.wasmInitialized = TRUE,
                                    !.promises[p].state = "fulfilled",
                                    !.promises[p].value = ldr.luxfhe,
                                    !.promises[p].pc = "done"]
                  [] att.pc = "poll" /\ ldr.luxfhe = 0
                       /\ att.attempts < MaxPolls ->
                        [ldr EXCEPT !.promises[p].attempts = @ + 1]
                  [] OTHER -> Catch(ldr, p)
        /\ UNCHANGED <<CoreVars, ring, eng, thr>>

\* main of the WASM module: js.Global().Set("luxfhe", ...), here by an
\* instance that had not done so when go.run returned.
GoMainExports ==
    /\ ldr.late # 0
    /\ ldr' = [ldr EXCEPT !.luxfhe = ldr.late, !.late = 0]
    /\ UNCHANGED <<CoreVars, ring, eng, thr>>

\* The await of the caller: the promise it was given has settled.
Settle(cl) ==
    LET me == ldr.callers[cl]
    IN  /\ me.pc = "await"
        /\ ldr.promises[me.p].state # "pending"
        /\ ldr' =
             IF ldr.promises[me.p].state = "fulfilled"
             THEN [ldr EXCEPT !.callers[cl].pc = "resolved",
                              !.callers[cl].val = ldr.promises[me.p].value,
                              !.given = @ \cup {ldr.promises[me.p].value}]
             ELSE [ldr EXCEPT !.callers[cl].pc = "rejected"]
        /\ UNCHANGED <<CoreVars, ring, eng, thr>>

NextLoader ==
    \/ \E cl \in Callers : loadLuxFHE(cl)
    \/ \E p \in 1 .. MaxAttempts : p <= Len(ldr.promises) /\ AttemptStep(p)
    \/ GoMainExports
    \/ \E cl \in Callers : Settle(cl)

SpecLoader == InitLoader /\ [][NextLoader]_vars

\* The event loop runs every task that is ready: a settled promise resumes
\* the callers awaiting it, and an attempt goes on.
FairLoader ==
    /\ \A cl \in Callers : WF_vars(Settle(cl))
    /\ \A p \in 1 .. MaxAttempts :
          WF_vars(p <= Len(ldr.promises) /\ AttemptStep(p))

SpecLoaderLive == SpecLoader /\ FairLoader

TypeOK ==
    /\ bsk \in [KSK : BOOLEAN]
    /\ \A i \in RegIds : regs[i].d \in 0 .. DepthCap
    /\ last.boots \in 0 .. 3

\* ------------------------------------------------------------- properties

\* The registers a gate reads.
Operands(op) ==
    IF op \in {"NOT", "Refresh"} THEN {1}
    ELSE IF op \in Gates2 \cup {"ANDNY", "ANDYN", "ORNY", "ORYN", "DeMorgan"}
    THEN {1, 2}
    ELSE {1, 2, 3}

\* A held ciphertext decrypts to the bit the circuit computes on plaintexts,
\* and its noise is below half of Delta.
Good(r) ==
    /\ Decrypt(r.ct) = r.bit
    /\ 2 * Abs(NoiseOf(r.ct, r.bit)) < Delta

\* C1: each two-input gate (AND, OR, XOR, NAND, NOR, XNOR) that returns a
\* ciphertext returns one that decrypts to the gate's truth table on the bits
\* of its operands; in particular XOR of two true bits, whose doubled sum
\* passes the half torus, decrypts to false.
C1_GateTruthTables ==
    (last.op \in Gates2 /\ last.err = "none") =>
        /\ Decrypt(out.ct) = Plain2(last.op, a, b)
        /\ (last.op = "XOR" /\ a /\ b) => ~Decrypt(out.ct)

C1_Witness ==
    /\ last.op = "XOR"
    /\ last.err = "none"
    /\ a /\ b
    /\ doubleCiphertext(addCiphertexts(A, B)).ph >= NBR
    /\ ~Decrypt(out.ct)

\* C2: Add on two w-bit encrypted integers returns w bits that decrypt to
\* (x + y) mod 2^w.
C2_AddModular ==
    (iop.op = "Add" /\ iop.done /\ iop.err = "none") =>
        /\ Len(iop.res) = iop.w
        /\ DecryptUint(iop.res) = (iop.x + iop.y) % Pow2(iop.w)

C2_Witness ==
    /\ iop.op = "Add" /\ iop.done /\ iop.err = "none"
    /\ iop.w >= 2
    /\ iop.x + iop.y >= Pow2(iop.w)
    /\ DecryptUint(iop.res) = iop.x + iop.y - Pow2(iop.w)

\* C3: Sub on two w-bit encrypted integers returns w bits that decrypt to
\* (x - y) mod 2^w, the value of adding the complement of y plus one.
C3_SubModular ==
    (iop.op = "Sub" /\ iop.done /\ iop.err = "none") =>
        /\ Len(iop.res) = iop.w
        /\ DecryptUint(iop.res) = (iop.x - iop.y + Pow2(iop.w)) % Pow2(iop.w)
        /\ DecryptUint(iop.res) =
              (iop.x + (Pow2(iop.w) - 1 - iop.y) + 1) % Pow2(iop.w)

C3_Witness ==
    /\ iop.op = "Sub" /\ iop.done /\ iop.err = "none"
    /\ iop.w >= 2
    /\ iop.x < iop.y
    /\ DecryptUint(iop.res) = iop.x - iop.y + Pow2(iop.w)

C6_MismatchRejected ==
    (/\ last.op # "none"
     /\ \E i \in Operands(last.op) : regs[i].ct.ps # EvalPreset) =>
        (last.err = "ParameterMismatch" /\ out = NoOut)

\* C7 (as the specification states it): no evaluator is ever handed the
\* secret key.
C7_EvaluatorWithoutSecretKey == "sk" \notin evalHas

\* C8 (as the specification states it): Mul returns NotImplemented and no
\* ciphertext.
C8_MulNotImplemented ==
    (iop.op = "Mul" /\ iop.done) =>
        (iop.err = "NotImplemented" /\ iop.res = <<>>)

\* C9 (as the specification states it): NOT runs no bootstrap and returns the
\* negation of its operand plus the constant offset that takes the encoding
\* 0 of false to the encoding Delta of true.
C9_NotNegationPlusOffset ==
    (last.op = "NOT") =>
        /\ last.boots = 0
        /\ out.ct.ph = (Delta + Q - A.ph) % Q

\* C9 (amended): NOT runs no bootstrap and returns the plain negation of its
\* operand, with no offset; the result decrypts to the complement of the
\* operand's bit under the encoding false = -Delta, true = +Delta.
C9_NotIsNegation ==
    (last.op = "NOT") =>
        /\ last.err = "none"
        /\ last.boots = 0
        /\ out.ct.ph = (Q - A.ph) % Q
        /\ Decrypt(A) = a
        /\ Decrypt(out.ct) = ~a

C9_Witness ==
    /\ last.op = "NOT"
    /\ ~a
    /\ A.ph = Q - Delta + NoiseB
    /\ out.ct.ph = Delta - NoiseB
    /\ Decrypt(out.ct)

\* C10: MAJORITY runs exactly one bootstrap, on the sum of its three operands,
\* and a result it returns decrypts to true exactly when at least two of the
\* three operand bits are true.
C10_MajorityOneBootstrap ==
    (last.op = "MAJORITY") =>
        /\ last.boots = 1
        /\ last.err = "none" =>
              /\ Decrypt(out.ct) = Maj(a, b, c)
              /\ \E e \in Noise :
                    out.ct.ph = (BlindRotate((A.ph + B.ph + C.ph) % Q,
                                             TestPolyMAJORITY) + e + Q) % Q

C10_Witness ==
    /\ last.op = "MAJORITY"
    /\ last.err = "none"
    /\ a /\ ~b /\ c
    /\ last.boots = 1
    /\ Decrypt(out.ct)

\* C11: MUX is OR(AND(sel, ctTrue), AND(NOT(sel), ctFalse)): two AND, one OR
\* and one NOT, three bootstraps in all, and a result it returns decrypts to
\* the bit of ctTrue when the selector bit is true and to the bit of ctFalse
\* when it is false.
C11_MuxComposition ==
    (last.op = "MUX" /\ last.err = "none") =>
        /\ last.boots = 3
        /\ Decrypt(out.ct) = (IF a THEN b ELSE c)
        /\ \E e1, e2, e3 \in Noise :
              out.ct = OR(AND(A, B, e1).ct, AND(NOT(A), C, e2).ct, e3).ct

C11_Witness ==
    /\ last.op = "MUX"
    /\ last.err = "none"
    /\ ~a /\ b /\ ~c
    /\ last.boots = 3
    /\ ~Decrypt(out.ct)

\* C12: each of Lt, Le, Gt, Ge and Eq on two w-bit encrypted integers returns
\* one encrypted bit that decrypts to x < y, x <= y, x > y, x >= y, x = y.
C12_Comparisons ==
    (iop.op \in CmpNames \cup {"Eq"} /\ iop.done /\ iop.err = "none") =>
        /\ Len(iop.res) = 1
        /\ Decrypt(iop.res[1]) = PlainCmp(iop.op, iop.x, iop.y)

C12_Witness ==
    /\ iop.op = "Le" /\ iop.done /\ iop.err = "none"
    /\ iop.w >= 2
    /\ iop.x = iop.y
    /\ iop.x > 0
    /\ Decrypt(iop.res[1])

\* C13: Select(sel, x, y) decrypts to x when the selector bit is true and to
\* y when it is false; Min(a, b), which is Select(Lt(a, b), a, b), decrypts
\* to the smaller and Max(a, b), which is Select(Lt(a, b), b, a), to the
\* larger of the two operands.
C13_SelectMinMax ==
    /\ (iop.op \in {"MinSelect", "MaxSelect"} /\ iop.err = "none") =>
          Decrypt(iop.carry) = (iop.x < iop.y)
    /\ (iop.op \in {"Select", "MinSelect", "MaxSelect"}
        /\ iop.done /\ iop.err = "none") =>
          /\ Len(iop.res) = iop.w
          /\ DecryptUint(iop.res) =
                CASE iop.op = "Select" ->
                        IF Decrypt(iop.carry) THEN iop.x ELSE iop.y
                  [] iop.op = "MinSelect" -> Min(iop.x, iop.y)
                  [] iop.op = "MaxSelect" -> Max(iop.x, iop.y)

C13_Witness ==
    /\ iop.op = "MaxSelect" /\ iop.done /\ iop.err = "none"
    /\ iop.w >= 2
    /\ iop.x > iop.y
    /\ iop.x > 1
    /\ ~Decrypt(iop.carry)
    /\ DecryptUint(iop.res) = iop.x

\* C14: Refresh changes the noise and not the bit: applied to an encryption
\* of x, or to the result of any number of earlier Refresh applications, it
\* runs one bootstrap and returns a ciphertext that decrypts to x, with noise
\* below Delta / 2.
C14_RefreshKeepsBit ==
    (last.op = "Refresh" /\ last.err = "none") =>
        /\ last.boots = 1
        /\ out.bit = a
        /\ Decrypt(out.ct) = a
        /\ 2 * Abs(NoiseOf(out.ct, a)) < Delta

C14_Witness ==
    /\ last.op = "Refresh"
    /\ last.err = "none"
    /\ regs[1].d = DepthCap
    /\ out.d = DepthCap
    /\ a
    /\ Decrypt(out.ct)

\* C15: with one ciphertext as both operands, Sub(a, a) decrypts to 0,
\* Xor(a, a) to 0, Or(a, a) to a, And(a, a) to a and Not(Not(a)) to a; and
\* Add(a, Neg(a)) decrypts to 0, Neg(a) decrypting to -a mod 2^w.
C15_Identities ==
    /\ (iop.op \in SelfNames \cup {"SubSelf", "AddNeg"}
        /\ iop.done /\ iop.err = "none") =>
          /\ Len(iop.res) = iop.w
          /\ DecryptUint(iop.res) =
                (IF iop.op \in {"OrSelf", "AndSelf", "NotNot"} THEN iop.x ELSE 0)
    /\ (iop.op = "Neg" /\ iop.done /\ iop.err = "none") =>
          DecryptUint(iop.res) = (Pow2(iop.w) - iop.y) % Pow2(iop.w)

C15_Witness ==
    /\ iop.op = "AddNeg" /\ iop.done /\ iop.err = "none"
    /\ iop.w >= 2
    /\ iop.x = 1
    /\ DecryptUint(iop.aux) = Pow2(iop.w) - 1
    /\ DecryptUint(iop.res) = 0

\* C16: on the same two operands NOT(AND(a, b)) and OR(NOT(a), NOT(b)), the
\* results of NOT going straight into OR, decrypt to the same bit, the
\* complement of a AND b; and each gate with one negated input decrypts to
\* its truth table.
C16_DeMorgan ==
    /\ (last.op = "DeMorgan" /\ last.err = "none") =>
          /\ Decrypt(out.ct) = Decrypt(regs[3].ct)
          /\ Decrypt(out.ct) = ~(a /\ b)
    /\ (last.op \in {"ANDNY", "ANDYN", "ORNY", "ORYN"} /\ last.err = "none") =>
          Decrypt(out.ct) = out.bit

C16_Witness ==
    /\ last.op = "DeMorgan"
    /\ last.err = "none"
    /\ a /\ ~b
    /\ regs[1].d >= 1
    /\ Decrypt(out.ct)
    /\ Decrypt(regs[3].ct)

\* The gates made of several bootstrapping sub-steps.
CompositeGates == {"MUX", "AND3", "OR3", "NAND3", "NOR3"}

BootGates ==
    {"AND", "OR", "XOR", "NAND", "NOR", "XNOR",
     "MUX", "AND3", "OR3", "MAJORITY", "NAND3", "NOR3"}

C19_UnsupportedWidthFails ==
    (iop.op = "encrypt" /\ iop.done /\ iop.req \notin SupportedWidths) =>
        /\ iop.err = "UnsupportedWidth"
        /\ iop.res = <<>>

C21_SampleExtractMapping ==
    ring.op \in {"Evaluator", "Engine", "ExternalProductContext"} =>
        /\ ring.b = ring.C0[0]
        /\ ring.a[0] = ring.C1[0]
        /\ \A i \in 1 .. RingN - 1 :
              ring.a[i] % RingQ = (RingQ - ring.C1[RingN - i]) % RingQ

\* C22: the modulus switch at the end of bootstrap takes every coefficient x
\* to the integer nearest to x * qLWE / Q_br, ties to even, modulo qLWE.
C22_ModSwitchNearestEven ==
    ring.op = "ModSwitch" =>
        \A i \in 0 .. RingN - 1 :
            /\ ring.V0[i] = RoundHalfEven(ring.C0[i] * qLWE, RingQ) % qLWE
            /\ ring.V1[i] = RoundHalfEven(ring.C1[i] * qLWE, RingQ) % qLWE

\* X^k * poly in Z_Q[X] / (X^N + 1), for k in 0 .. 2N - 1.
NegacyclicRotate(poly, k) ==
    LET kk == k % RingN
        low == [i \in 0 .. RingN - 1 |->
                   IF i < kk THEN (RingQ - poly[i - kk + RingN]) % RingQ
                   ELSE poly[i - kk]]
    IN  [i \in 0 .. RingN - 1 |->
            IF k < RingN THEN low[i] ELSE (RingQ - low[i]) % RingQ]

RotateNames == {"polyRotate", "batchPolyRotate", "RLWEMulByMonomial"}

\* C23: each rotation routine, called with an index k in 0 .. 2N - 1,
\* returns X^k * poly under X^N = -1 (modulo Q), and called with k and with
\* k + N returns polynomials that are negations of each other.
C23_NegacyclicRotation ==
    ring.op \in RotateNames =>
        \A j \in 1 .. 2, i \in 0 .. RingN - 1 :
            LET src == IF j = 1 THEN ring.C0 ELSE ring.C1
            IN  /\ ring.R[j][i] % RingQ = NegacyclicRotate(src, ring.k)[i]
                /\ (ring.R[j][i] + ring.RN[j][i]) % RingQ = 0

\* C24: a batch that names a user for whom CreateUser, UploadBootstrapKey
\* and AllocateCiphertexts with a positive count had succeeded when the batch
\* was submitted returns no error and has raised that user's OpsCompleted by
\* the number of the user's operations.
C24_ReadyUserBatchSucceeds ==
    eng.ret.op = "ExecuteBatchGates" =>
        \A g \in eng.ret.batch, r \in eng.ret.ready :
            (g[1] = r[1] /\ g[1] \in eng.users) =>
                /\ eng.ret.err = "none"
                /\ eng.sess[g[1]].OpsCompleted >= r[2] + g[2]

\* The sum of OpsCompleted over the sessions ever created.
RECURSIVE SumOps(_)
SumOps(sess) ==
    IF Len(sess) = 0 THEN 0
    ELSE sess[Len(sess)].OpsCompleted + SumOps(SubSeq(sess, 1, Len(sess) - 1))

C26_SessionsBoundedIDsUnique ==
    /\ Cardinality(eng.users) <= cfg.MaxUsers
    /\ \A i \in DOMAIN eng.issued : eng.issued[i] # 0
    /\ \A i, j \in DOMAIN eng.issued :
          i # j => eng.issued[i] # eng.issued[j]

\* The map is full, a CreateUser was refused, and a session was created after
\* another was deleted.
C26_Witness ==
    /\ Cardinality(eng.users) = cfg.MaxUsers
    /\ Len(eng.issued) = 2
    /\ eng.issued[1] \notin eng.users
    /\ eng.ret.op = "CreateUser"
    /\ eng.ret.err = "max users reached"

\* The accesses of session fields that the next step of goroutine t makes:
\* the session, the field, whether it writes, whether t holds the session's
\* mutex.
Accesses(t) ==
    LET me == thr[t]
        acc(u, f, w) == [u |-> u, f |-> f, w |-> w,
                         locked |-> eng.sess[u].mu = t]
    IN  CASE me.op = "UploadBootstrapKey" /\ me.pc = "setBSK" ->
                {acc(me.uid, "BSK", TRUE)}
          [] me.op \in {"UploadBootstrapKey", "AllocateCiphertexts"}
               /\ me.pc = "addMem" ->
                {acc(me.uid, "MemoryUsed", TRUE)}
          [] me.op = "AllocateCiphertexts" /\ me.pc = "append" ->
                {acc(me.uid, "LWEPools", TRUE)}
          [] me.op = "ExecuteBatchGates" /\ me.pc = "checkBSK" ->
                {acc(me.uid, "BSK", FALSE)}
          [] me.op = "ExecuteBatchGates" /\ me.pc = "batchBootstrap" ->
                {acc(me.uid, "BSK", FALSE), acc(me.uid, "LWEPools", FALSE)}
          [] me.op = "GetStats" /\ me.pc = "sumMem" ->
                {acc(u, "MemoryUsed", FALSE) : u \in me.todo}
          [] OTHER -> {}

\* C27: every read and write of a session's BSK, LWEPools and MemoryUsed is
\* made by a goroutine that holds the session's mutex, so that no access by
\* ExecuteBatchGates or GetStats is concurrent with a write of the same field
\* by UploadBootstrapKey or AllocateCiphertexts.
C27_SessionFieldsUnderMutex ==
    /\ \A t \in Threads : \A x \in Accesses(t) : x.locked
    /\ \A t1, t2 \in Threads :
          t1 # t2 =>
              \A x1 \in Accesses(t1), x2 \in Accesses(t2) :
                  ~(x1.u = x2.u /\ x1.f = x2.f /\ x1.w /\ ~x2.w)

Attempts(state) ==
    {p \in DOMAIN ldr.promises : ldr.promises[p].state = state}

\* C29: under every interleaving of loadLuxFHE calls at most one
\* initialization is in progress and at most one succeeds, the Go runtime is
\* loaded at most once, an attempt loads the WASM module at most once and the
\* successful one exactly once, and every caller that receives an object,
\* whether it called first, during the initialization or after it, receives
\* the same one.
C29_LoadedOnceSameObject ==
    /\ Cardinality(Attempts("pending")) <= 1
    /\ Cardinality(Attempts("fulfilled")) <= 1
    /\ ldr.runtimeLoads <= 1
    /\ \A p \in DOMAIN ldr.promises :
          /\ ldr.promises[p].wasm <= 1
          /\ ldr.promises[p].state = "fulfilled" => ldr.promises[p].wasm = 1
    /\ Cardinality(ldr.given) <= 1
    /\ \A cl \in Callers :
          ldr.callers[cl].pc = "resolved" =>
              \E p \in Attempts("fulfilled") :
                  ldr.callers[cl].val = ldr.promises[p].value

\* One caller called during the initialization and one after it, and both
\* hold the object.
C29_Witness ==
    /\ \E c1, c2 \in Callers :
          /\ ldr.callers[c1].arrived = "during"
          /\ ldr.callers[c1].pc = "resolved"
          /\ ldr.callers[c2].arrived = "after"
          /\ ldr.callers[c2].pc = "resolved"
          /\ ldr.callers[c1].val = ldr.callers[c2].val
    /\ ldr.given # {}

\* What holds in every state of the loader for C30.
FailedInitState ==
    /\ \A cl \in Callers :
          LET me == ldr.callers[cl]
          IN  /\ me.pc = "rejected" => ldr.promises[me.p].state = "rejected"
              /\ (me.pc = "resolved" /\ me.p # 0) =>
                    ldr.promises[me.p].state = "fulfilled"
              /\ (me.p # 0 /\ me.arrived = "after") =>
                    ldr.promises[me.p].state = "fulfilled"
    /\ ldr.initPromise # 0 =>
          ldr.promises[ldr.initPromise].state # "rejected"
    /\ isInitialized(ldr) <=> Attempts("fulfilled") # {}
    /\ getWasm(ldr).throws <=> Attempts("fulfilled") = {}

\* C30: when an attempt fails every caller awaiting it is rejected; a
\* loadLuxFHE call after the failure is never handed the rejected promise;
\* getWasm throws and isInitialized is false as long as no attempt has
\* succeeded, and isInitialized is true in every state after one has.
C30_FailedInitRejectsAndRetries ==
    /\ []FailedInitState
    /\ \A cl \in Callers :
          (/\ ldr.callers[cl].pc = "await"
           /\ ldr.promises[ldr.callers[cl].p].state = "rejected")
              ~> (ldr.callers[cl].pc = "rejected")

\* A caller was rejected by a failed attempt, and a later attempt succeeded.
C30_Witness ==
    /\ \E cl \in Callers : ldr.callers[cl].pc = "rejected"
    /\ \E p, q \in DOMAIN ldr.promises :
          /\ p < q
          /\ ldr.promises[p].state = "rejected"
          /\ ldr.promises[q].state = "fulfilled"
    /\ isInitialized(ldr)
    /\ ~getWasm(ldr).throws

====
